---- MODULE Spec2Model ----
(***************************************************************************)
(* A model of StatWrap's asset-tree utilities (src/app/utils/asset.js).    *)
(*                                                                         *)
(* Strings are sequences of one-character strings, so that the string      *)
(* operations of the source (indexOf, lastIndexOf, substring, split, join) *)
(* and the POSIX flavour of Node's path module are computed and not        *)
(* assumed.  JavaScript objects live in a heap (a sequence of records; an  *)
(* object's address is its index, address 0 is null), so that cloning,     *)
(* sharing and in-place assignment are visible.                            *)
(***************************************************************************)
EXTENDS Integers, Sequences, FiniteSets

VARIABLES heap, tree, cur, projectPath, uri, rootUri, accumulator, assetList, pc, ret, retList, threw,
          calls

vars == <<heap, tree, cur, projectPath, uri, rootUri, accumulator, assetList, pc, ret, retList, threw,
          calls>>

(***************************************************************************)
(* Strings                                                                 *)
(***************************************************************************)

\* null / undefined where a string is expected (no character is "null")
Null == <<"null">>

\* path.sep and path.posix.sep on a POSIX build
Sep == "/"

\* JavaScript's !s for a string-or-null s
Falsy(s) == s = Null \/ s = <<>>

\* s.indexOf(t) === 0
StartsWith(s, t) == Len(t) <= Len(s) /\ SubSeq(s, 1, Len(t)) = t

\* s.indexOf(c), 0-based, -1 coded as 0 in the 1-based result: the 1-based
\* position of the first c in s, or 0 when there is none
IndexOf(s, c) ==
  IF \E i \in 1..Len(s) : s[i] = c
  THEN CHOOSE i \in 1..Len(s) : s[i] = c /\ \A j \in 1..(i - 1) : s[j] # c
  ELSE 0

\* s.lastIndexOf(c): the 1-based position of the last c in s, or 0
LastIndexOf(s, c) ==
  IF \E i \in 1..Len(s) : s[i] = c
  THEN CHOOSE i \in 1..Len(s) : s[i] = c /\ \A j \in (i + 1)..Len(s) : s[j] # c
  ELSE 0

\* s.split(sep): the segments between separators (never empty: "" gives <<"">>)
RECURSIVE Split(_, _)
Split(s, c) ==
  LET i == IndexOf(s, c)
  IN IF i = 0 THEN <<s>>
     ELSE <<SubSeq(s, 1, i - 1)>> \o Split(SubSeq(s, i + 1, Len(s)), c)

\* segs.join(sep)
RECURSIVE Join(_, _)
Join(segs, c) ==
  IF Len(segs) = 0 THEN <<>>
  ELSE IF Len(segs) = 1 THEN segs[1]
  ELSE segs[1] \o <<c>> \o Join(Tail(segs), c)

(***************************************************************************)
(* Node's path module, POSIX flavour                                       *)
(***************************************************************************)

\* process.cwd(), which path.resolve falls back to
Cwd == <<"/", "w">>

\* path.isAbsolute
IsAbsolute(s) == Len(s) > 0 /\ s[1] = Sep

\* normalizeString: drops empty and "." segments, lets ".." remove the segment
\* before it; above the root ".." is kept only when allowAboveRoot
RECURSIVE NormalizeSegs(_, _, _)
NormalizeSegs(segs, acc, allowAboveRoot) ==
  IF Len(segs) = 0 THEN acc
  ELSE LET s == Head(segs)
           rest == Tail(segs)
       IN IF s = <<>> \/ s = <<".">> THEN NormalizeSegs(rest, acc, allowAboveRoot)
          ELSE IF s = <<".", ".">>
            THEN IF Len(acc) > 0 /\ acc[Len(acc)] # <<".", ".">>
                   THEN NormalizeSegs(rest, SubSeq(acc, 1, Len(acc) - 1), allowAboveRoot)
                 ELSE IF allowAboveRoot
                   THEN NormalizeSegs(rest, Append(acc, s), allowAboveRoot)
                 ELSE NormalizeSegs(rest, acc, allowAboveRoot)
          ELSE NormalizeSegs(rest, Append(acc, s), allowAboveRoot)

\* the segments of path.resolve(a, b): right to left until an absolute path is
\* met, empty arguments skipped, the working directory as the last resort
ResolveSegs(a, b) ==
  LET joined == IF IsAbsolute(b) THEN b
                ELSE IF IsAbsolute(a) THEN a \o <<Sep>> \o b
                ELSE Cwd \o <<Sep>> \o a \o <<Sep>> \o b
  IN NormalizeSegs(Split(joined, Sep), <<>>, FALSE)

\* path.resolve(a, b)
PathResolve(a, b) == <<Sep>> \o Join(ResolveSegs(a, b), Sep)

\* the length of the longest common prefix of two segment lists
RECURSIVE CommonLen(_, _)
CommonLen(f, t) ==
  IF Len(f) = 0 \/ Len(t) = 0 \/ Head(f) # Head(t) THEN 0
  ELSE 1 + CommonLen(Tail(f), Tail(t))

\* path.relative(from, to)
PathRelative(from, to) ==
  IF from = to THEN <<>>
  ELSE LET f == ResolveSegs(<<>>, from)
           t == ResolveSegs(<<>>, to)
           k == CommonLen(f, t)
       IN Join([i \in 1..(Len(f) - k) |-> <<".", ".">>] \o SubSeq(t, k + 1, Len(t)), Sep)

(***************************************************************************)
(* findAllDescendantAssetsByUri                                            *)
(***************************************************************************)

\* rootUri.substring(0, rootUri.indexOf(path.sep)): the text before the first
\* separator (empty when there is none, substring clamping -1 to 0)
DriveOf(root) == SubSeq(root, 1, IndexOf(root, Sep) - 1)

\* a loop that leaves rootUri itself out of the list
RECURSIVE DescendantsLoopWithoutRoot(_, _, _)
DescendantsLoopWithoutRoot(asset, root, list) ==
  IF asset = root THEN list
  ELSE LET lastSep == LastIndexOf(asset, Sep)
       IN IF lastSep = 0 THEN list
          ELSE LET cut == SubSeq(asset, 1, lastSep - 1)
               IN DescendantsLoopWithoutRoot(cut, root,
                    IF cut # root THEN Append(list, cut) ELSE list)

\* the while loop of findAllDescendantAssetsByUri
RECURSIVE DescendantsLoop(_, _, _)
DescendantsLoop(asset, root, list) ==
  IF asset = root THEN list
  ELSE LET lastSep == LastIndexOf(asset, Sep)
       IN IF lastSep = 0 THEN list
          ELSE LET cut == SubSeq(asset, 1, lastSep - 1)
               IN DescendantsLoop(cut, root,
                    IF cut # DriveOf(root) THEN Append(list, cut) ELSE list)

findAllDescendantAssetsByUri(asset, root) ==
  IF ~Falsy(asset) /\ ~Falsy(root) /\ StartsWith(asset, root)
  THEN DescendantsLoop(asset, root, <<>>)
  ELSE <<>>

(***************************************************************************)
(* Assets in the heap                                                      *)
(*                                                                         *)
(* An object is a record: uri (a string or Null), type, children (a list   *)
(* of addresses, 0 for a null entry; read only when hasChildren), metadata *)
(* (a list of entries [present, id, include], present = FALSE for a null   *)
(* entry; read only when hasMetadata), notes (read only when hasNotes),    *)
(* entrypoint (attributes.entrypoint, read only when hasAttributes).       *)
(* orig is a ghost field: the address of the input object this object is,  *)
(* or was cloned from.                                                     *)
(***************************************************************************)

\* Constants.AssetType
FILE == "file"
DIRECTORY == "directory"
FOLDER == "folder"
URL == "url"

\* a handler id is the sequence of its UTF-16 code units, which is what
\* String.prototype.trim and === read

\* FileHandler.id: 'StatWrap.FileHandler'
FileHandlerId ==
  <<83, 116, 97, 116, 87, 114, 97, 112, 46,
    70, 105, 108, 101, 72, 97, 110, 100, 108, 101, 114>>

\* what a lookup that finds nothing returns (entry || null)
NoEntry == [present |-> FALSE, id |-> <<>>, include |-> FALSE]

\* a handler argument that is null or undefined
NoHandler == <<-1>>

\* the code units String.prototype.trim removes, the white space and line
\* terminators of ECMAScript: U+0009 to U+000D, U+0020, U+00A0, U+1680, U+2000 to
\* U+200A, U+2028, U+2029, U+202F, U+205F, U+3000, U+FEFF
WhiteSpace ==
  (9..13) \cup {32, 160, 5760} \cup (8192..8202) \cup {8232, 8233, 8239, 8287, 12288, 65279}

\* handler.trim(): handler without its leading and trailing white space
RECURSIVE Trim(_)
Trim(str) ==
  IF str = <<>> THEN <<>>
  ELSE IF Head(str) \in WhiteSpace THEN Trim(Tail(str))
  ELSE IF str[Len(str)] \in WhiteSpace THEN Trim(SubSeq(str, 1, Len(str) - 1))
  ELSE str

\* !handler || handler.trim() === ''
IsBlank(handler) == handler = NoHandler \/ handler = <<>> \/ Trim(handler) = <<>>

\* a lookup that reads only the first entry of the list
GetHandlerMetadataFirstEntry(handler, hasMetadata, metadata) ==
  IF ~hasMetadata \/ Len(metadata) = 0 THEN NoEntry
  ELSE IF IsBlank(handler) THEN NoEntry
  ELSE IF metadata[1].present /\ metadata[1].id = handler THEN metadata[1]
  ELSE NoEntry

getHandlerMetadata(handler, hasMetadata, metadata) ==
  IF ~hasMetadata \/ Len(metadata) = 0 THEN NoEntry
  ELSE IF IsBlank(handler) THEN NoEntry
  ELSE IF \E i \in 1..Len(metadata) : metadata[i].present /\ metadata[i].id = handler
    THEN metadata[CHOOSE i \in 1..Len(metadata) :
                    /\ metadata[i].present /\ metadata[i].id = handler
                    /\ \A j \in 1..(i - 1) : ~(metadata[j].present /\ metadata[j].id = handler)]
  ELSE NoEntry

RECURSIVE filterIncludedFileAssets(_, _), FilterChildren(_, _, _, _)

\* a filter that also drops an asset the file handler has not classified
FilterRequiringMetadata(h, a) ==
  IF a = 0 THEN [heap |-> h, ref |-> 0]
  ELSE LET assetMetadata == getHandlerMetadata(FileHandlerId, h[a].hasMetadata, h[a].metadata)
       IN IF ~assetMetadata.present \/ ~assetMetadata.include THEN [heap |-> h, ref |-> 0]
          ELSE IF ~h[a].hasChildren THEN [heap |-> h, ref |-> a]
          ELSE LET filteredAsset == Len(h) + 1
                   h1 == Append(h, h[a])
               IN [heap |-> FilterChildren(h1, filteredAsset, 1, <<>>), ref |-> filteredAsset]

\* a filter that prunes the children list of the asset it is given instead of
\* the list of a clone
FilterInPlace(h, a) ==
  IF a = 0 THEN [heap |-> h, ref |-> 0]
  ELSE LET assetMetadata == getHandlerMetadata(FileHandlerId, h[a].hasMetadata, h[a].metadata)
       IN IF assetMetadata.present /\ ~assetMetadata.include THEN [heap |-> h, ref |-> 0]
          ELSE IF ~h[a].hasChildren THEN [heap |-> h, ref |-> a]
          ELSE [heap |-> FilterChildren(h, a, 1, <<>>), ref |-> a]

\* filterIncludedFileAssets: the result is [heap, ref]; ref = 0 is null
filterIncludedFileAssets(h, a) ==
  IF a = 0 THEN [heap |-> h, ref |-> 0]
  ELSE LET assetMetadata == getHandlerMetadata(FileHandlerId, h[a].hasMetadata, h[a].metadata)
       IN IF assetMetadata.present /\ ~assetMetadata.include THEN [heap |-> h, ref |-> 0]
          ELSE IF ~h[a].hasChildren THEN [heap |-> h, ref |-> a]
          ELSE LET filteredAsset == Len(h) + 1
                   h1 == Append(h, h[a])
               IN [heap |-> FilterChildren(h1, filteredAsset, 1, <<>>), ref |-> filteredAsset]

\* the for loop over filteredAsset.children, then the filter that drops nulls
FilterChildren(h, fa, index, done) ==
  IF index > Len(h[fa].children)
  THEN [h EXCEPT ![fa].children = SelectSeq(done, LAMBDA c : c # 0)]
  ELSE LET r == filterIncludedFileAssets(h, h[fa].children[index])
       IN FilterChildren(r.heap, fa, index + 1, Append(done, r.ref))

\* findChildAssetByUri: the address of the child found, 0 for null
findChildAssetByUri(h, a, u) ==
  IF a = 0 \/ Falsy(u) \/ ~h[a].hasChildren THEN 0
  ELSE LET kids == h[a].children
           hit(i) == kids[i] # 0 /\ h[kids[i]].uri = u
       IN IF \E i \in 1..Len(kids) : hit(i)
          THEN kids[CHOOSE i \in 1..Len(kids) : hit(i) /\ \A j \in 1..(i - 1) : ~hit(j)]
          ELSE 0

\* findDescendantAssetByUri: the address of the asset found, 0 for null
RECURSIVE findDescendantAssetByUri(_, _, _), FindInChildren(_, _, _, _)
findDescendantAssetByUri(h, a, u) ==
  IF a = 0 \/ Falsy(u) THEN 0
  ELSE IF h[a].uri = u THEN a
  ELSE IF ~h[a].hasChildren THEN 0
  ELSE FindInChildren(h, h[a].children, 1, u)

\* a search that tries every remaining child before it descends into any
RECURSIVE FindInChildrenDirectFirst(_, _, _, _)
FindInChildrenDirectFirst(h, kids, index, u) ==
  LET hit(i) == kids[i] # 0 /\ h[kids[i]].uri = u
  IN IF \E i \in index..Len(kids) : hit(i)
     THEN kids[CHOOSE i \in index..Len(kids) : hit(i) /\ \A j \in index..(i - 1) : ~hit(j)]
     ELSE IF index > Len(kids) THEN 0
     ELSE LET found == findDescendantAssetByUri(h, kids[index], u)
          IN IF found # 0 THEN found ELSE FindInChildrenDirectFirst(h, kids, index + 1, u)

FindInChildren(h, kids, index, u) ==
  IF index > Len(kids) THEN 0
  ELSE LET found == findDescendantAssetByUri(h, kids[index], u)
       IN IF found # 0 THEN found ELSE FindInChildren(h, kids, index + 1, u)

RECURSIVE findEntryPointAssets(_, _, _), EntryPointsOfChildren(_, _, _, _)

\* a collection that pushes an asset after its descendants
FindEntryPointAssetsChildrenFirst(h, a, entryPointList) ==
  IF a = 0 THEN entryPointList
  ELSE LET l1 == IF h[a].hasChildren
                 THEN EntryPointsOfChildren(h, h[a].children, 1, entryPointList)
                 ELSE entryPointList
       IN IF h[a].hasAttributes /\ h[a].entrypoint THEN Append(l1, a) ELSE l1

\* findEntryPointAssets: the accumulator after the call
findEntryPointAssets(h, a, entryPointList) ==
  IF a = 0 THEN entryPointList
  ELSE LET l1 == IF h[a].hasAttributes /\ h[a].entrypoint
                 THEN Append(entryPointList, a) ELSE entryPointList
       IN IF h[a].hasChildren THEN EntryPointsOfChildren(h, h[a].children, 1, l1) ELSE l1

EntryPointsOfChildren(h, kids, index, list) ==
  IF index > Len(kids) THEN list
  ELSE EntryPointsOfChildren(h, kids, index + 1, findEntryPointAssets(h, kids[index], list))

\* getAllNotes: the records { ...note, uri }, flattened
RECURSIVE getAllNotes(_, _), NotesOfChildren(_, _, _, _)
getAllNotes(h, a) ==
  LET notes == IF a # 0 /\ h[a].hasNotes
               THEN [i \in 1..Len(h[a].notes) |-> [note |-> h[a].notes[i], uri |-> h[a].uri]]
               ELSE <<>>
  IN IF a = 0 \/ ~h[a].hasChildren THEN notes
     ELSE NotesOfChildren(h, h[a].children, 1, notes)

\* a loop that puts each child's notes in front of those collected so far
RECURSIVE NotesOfChildrenInFront(_, _, _, _)
NotesOfChildrenInFront(h, kids, index, notes) ==
  IF index > Len(kids) THEN notes
  ELSE NotesOfChildrenInFront(h, kids, index + 1, getAllNotes(h, kids[index]) \o notes)

NotesOfChildren(h, kids, index, notes) ==
  IF index > Len(kids) THEN notes
  ELSE NotesOfChildren(h, kids, index + 1, notes \o getAllNotes(h, kids[index]))

\* a check that forgets the FOLDER type
ShouldConvertPathFilesAndDirectories(h, a) ==
  IF a = 0 THEN FALSE
  ELSE h[a].type = FILE \/ h[a].type = DIRECTORY

shouldConvertPath(h, a) ==
  IF a = 0 THEN FALSE
  ELSE h[a].type = FILE \/ h[a].type = DIRECTORY \/ h[a].type = FOLDER

\* what a worker function gives when path.resolve or path.relative throws
TypeError == <<"TypeError">>

\* a conversion that concatenates instead of resolving
RelativeToAbsolutePathByConcat(pp, h, a) ==
  IF a = 0 \/ h[a].uri = Null THEN Null
  ELSE pp \o <<Sep>> \o h[a].uri

\* path.resolve reads its arguments from the right and stops at an absolute one:
\* a null projectPath is a TypeError when the uri is relative
relativeToAbsolutePath(pp, h, a) ==
  IF a = 0 \/ h[a].uri = Null THEN Null
  ELSE IF pp = Null /\ ~IsAbsolute(h[a].uri) THEN TypeError
  ELSE PathResolve(pp, h[a].uri)

\* path.relative checks its first argument: a null projectPath is a TypeError
absoluteToRelativePath(pp, h, a) ==
  IF a = 0 \/ h[a].uri = Null \/ ~IsAbsolute(h[a].uri) THEN Null
  ELSE IF pp = Null THEN TypeError
  ELSE Join(Split(PathRelative(pp, h[a].uri), Sep), Sep)

\* the two worker functions recursivePathConversion is called with
ToRelative == "absoluteToRelativePath"
ToAbsolute == "relativeToAbsolutePath"

WorkerFn(fn, pp, h, a) ==
  IF fn = ToRelative THEN absoluteToRelativePath(pp, h, a) ELSE relativeToAbsolutePath(pp, h, a)

\* JSON.parse(JSON.stringify(assets)): a copy of the whole tree in fresh objects
RECURSIVE JsonCopy(_, _), JsonCopyList(_, _, _, _)
JsonCopy(h, a) ==
  IF a = 0 THEN [heap |-> h, ref |-> 0]
  ELSE LET kids == JsonCopyList(h, h[a].children, 1, <<>>)
       IN [heap |-> Append(kids.heap, [h[a] EXCEPT !.children = kids.refs]),
           ref |-> Len(kids.heap) + 1]

JsonCopyList(h, kids, index, done) ==
  IF index > Len(kids) THEN [heap |-> h, refs |-> done]
  ELSE LET c == JsonCopy(h, kids[index])
       IN JsonCopyList(c.heap, kids, index + 1, Append(done, c.ref))

RECURSIVE RecursivePathConversionWorker(_, _, _, _), ConvertChildren(_, _, _, _, _)

\* a conversion that stops at a node it does not convert: the children of a URL
\* node are left as they are
ConversionSkippingUrlSubtrees(pp, h, a, fn) ==
  IF a = 0 THEN [heap |-> h, ref |-> 0, threw |-> TRUE]
  ELSE IF ~shouldConvertPath(h, a) THEN [heap |-> h, ref |-> a, threw |-> FALSE]
  ELSE LET h1 == [h EXCEPT ![a].uri = WorkerFn(fn, pp, h, a)]
       IN IF h1[a].hasChildren
          THEN ConvertChildren(pp, h1, a, 1, fn)
          ELSE [heap |-> h1, ref |-> a, threw |-> FALSE]

\* _recursivePathConversion: assigns in place; the result is [heap, ref, threw],
\* threw when asset.children is read of a null asset or the worker function
\* throws (a TypeError)
RecursivePathConversionWorker(pp, h, a, fn) ==
  IF a = 0 THEN [heap |-> h, ref |-> 0, threw |-> TRUE]
  ELSE LET converted == WorkerFn(fn, pp, h, a)
           h1 == IF shouldConvertPath(h, a) THEN [h EXCEPT ![a].uri = converted] ELSE h
       IN IF shouldConvertPath(h, a) /\ converted = TypeError
          THEN [heap |-> h, ref |-> 0, threw |-> TRUE]
          ELSE IF h1[a].hasChildren
          THEN ConvertChildren(pp, h1, a, 1, fn)
          ELSE [heap |-> h1, ref |-> a, threw |-> FALSE]

ConvertChildren(pp, h, a, index, fn) ==
  IF index > Len(h[a].children) THEN [heap |-> h, ref |-> a, threw |-> FALSE]
  ELSE LET r == RecursivePathConversionWorker(pp, h, h[a].children[index], fn)
       IN IF r.threw THEN [heap |-> r.heap, ref |-> 0, threw |-> TRUE]
          ELSE ConvertChildren(pp, [r.heap EXCEPT ![a].children[index] = r.ref], a, index + 1, fn)

\* a conversion that works on the caller's objects instead of a copy
RecursivePathConversionInPlace(pp, h, assets, fn) ==
  IF assets = 0 \/ pp = Null THEN [heap |-> h, ref |-> assets, threw |-> FALSE]
  ELSE RecursivePathConversionWorker(pp, h, assets, fn)

recursivePathConversion(pp, h, assets, fn) ==
  IF assets = 0 \/ pp = Null THEN [heap |-> h, ref |-> assets, threw |-> FALSE]
  ELSE LET assetsCopy == JsonCopy(h, assets)
       IN RecursivePathConversionWorker(pp, assetsCopy.heap, assetsCopy.ref, fn)

recursiveRelativeToAbsolutePath(pp, h, assets) == recursivePathConversion(pp, h, assets, ToAbsolute)

recursiveAbsoluteToRelativePath(pp, h, assets) == recursivePathConversion(pp, h, assets, ToRelative)

\* an assets argument that is null or undefined
NoArray == <<-1>>

\* the for loop of _convertPathForArray: assigns the uri of the caller's objects,
\* the entries of the array only; the result is [heap, threw], and the entries
\* before the one the worker function throws on stay converted
RECURSIVE ConvertPathForArrayLoop(_, _, _, _, _)
ConvertPathForArrayLoop(pp, h, list, index, fn) ==
  IF index > Len(list) THEN [heap |-> h, threw |-> FALSE]
  ELSE IF ~shouldConvertPath(h, list[index])
    THEN ConvertPathForArrayLoop(pp, h, list, index + 1, fn)
  ELSE IF WorkerFn(fn, pp, h, list[index]) = TypeError THEN [heap |-> h, threw |-> TRUE]
  ELSE ConvertPathForArrayLoop(
         pp, [h EXCEPT ![list[index]].uri = WorkerFn(fn, pp, h, list[index])], list, index + 1, fn)

\* _convertPathForArray: returns the array it is given
ConvertPathForArray(pp, h, list, fn) ==
  IF list = NoArray THEN [heap |-> h, threw |-> FALSE]
  ELSE ConvertPathForArrayLoop(pp, h, list, 1, fn)

absoluteToRelativePathForArray(pp, h, list) == ConvertPathForArray(pp, h, list, ToRelative)

relativeToAbsolutePathForArray(pp, h, list) == ConvertPathForArray(pp, h, list, ToAbsolute)

(***************************************************************************)
(* Input trees                                                             *)
(***************************************************************************)

\* the largest trees each specification draws
ConvMaxNodes == 2
NullMaxNodes == 2
FilterMaxNodes == 3
QueryMaxNodes == 4
\* the longest chain of conversions, each applied to the result before
MaxCalls == 3
ArrayMaxLen == 2
\* the longest asset and root URIs (in segments) findAllDescendantAssetsByUri is given
MaxUriSegs == 4
MaxRootSegs == 2

\* an asset with no optional field set
BlankAsset ==
  [uri |-> Null, type |-> FILE, hasChildren |-> FALSE, children |-> <<>>,
   hasMetadata |-> FALSE, metadata |-> <<>>, hasNotes |-> FALSE, notes |-> <<>>,
   hasAttributes |-> FALSE, entrypoint |-> FALSE, orig |-> 0]

\* the shapes of a tree of n nodes: p[i] is the parent of node i, node 1 the root
ParentVecs(n) == {p \in [1..n -> 0..n] : p[1] = 0 /\ \A i \in 2..n : p[i] \in 1..(i - 1)}

\* the children of node i, left to right
ChildrenOf(n, p, i) == SelectSeq([k \in 1..n |-> k], LAMBDA j : p[j] = i)

\* the heap holding the tree of shape p whose node i has the fields f[i]; node
\* nullAt (if any) has a null entry in front of its children; a leaf has an empty
\* children list when emptyKids, and none otherwise
MkHeap(n, p, f, nullAt, emptyKids) ==
  [i \in 1..n |->
     LET kids == (IF i = nullAt THEN <<0>> ELSE <<>>) \o ChildrenOf(n, p, i)
     IN [f[i] EXCEPT !.children = kids,
                     !.hasChildren = (kids # <<>> \/ emptyKids),
                     !.orig = i]]

\* heap is one of the heaps of at most maxNodes nodes over the per-node fields in
\* fieldSet
HeapIn(maxNodes, fieldSet, nullAts, emptyKidsSet) ==
  \E n \in 1..maxNodes : \E p \in ParentVecs(n) : \E f \in [1..n -> fieldSet] :
    \E nullAt \in nullAts \cap (0..n) : \E e \in emptyKidsSet :
      heap = MkHeap(n, p, f, nullAt, e)

\* the addresses of the tree at a, in depth-first pre-order
RECURSIVE PreOrder(_, _), PreOrderList(_, _)
PreOrder(h, a) == IF a = 0 THEN <<>> ELSE <<a>> \o PreOrderList(h, h[a].children)

PreOrderList(h, kids) ==
  IF kids = <<>> THEN <<>> ELSE PreOrder(h, Head(kids)) \o PreOrderList(h, Tail(kids))

Range(s) == {s[i] : i \in 1..Len(s)}

\* the objects of the tree at a
Nodes(h, a) == Range(PreOrder(h, a))

\* strings of the inputs
sP == <<"/", "p">>
sA == <<"a">>
sB == <<"b">>
sPA == <<"/", "p", "/", "a">>
sPATrail == <<"/", "p", "/", "a", "/">>
sPDotDot == <<"/", "p", "/", "a", "/", ".", ".", "/", "b">>
sPTrail == <<"/", "p", "/">>

\* every string of 1..n segments drawn from segs
RECURSIVE SegLists(_, _)
SegLists(n, segs) ==
  IF n = 0 THEN {<<>>}
  ELSE {<<>>} \cup {<<s>> \o l : s \in segs, l \in SegLists(n - 1, segs)}

PathsOf(n, segs) == {Join(l, Sep) : l \in SegLists(n, segs) \ {<<>>}}

InitRest ==
  /\ pc = "ready"
  /\ ret = 0
  /\ retList = <<>>
  /\ threw = FALSE
  /\ calls = <<>>

(***************************************************************************)
(* Calls                                                                   *)
(***************************************************************************)

\* what a call that reads but does not write leaves alone
Inputs == <<heap, tree, cur, projectPath, uri, rootUri, accumulator, assetList>>

CallFindAllDescendantAssetsByUri ==
  /\ pc = "ready"
  /\ pc' = "findAllDescendantAssetsByUri"
  /\ retList' = findAllDescendantAssetsByUri(uri, rootUri)
  /\ UNCHANGED <<Inputs, ret, threw, calls>>

\* recursivePathConversion applied to the result of the call before (the input
\* tree at first)
CallConversion(fn) ==
  /\ pc \in {"ready", "recursivePathConversion"}
  /\ ~threw
  /\ Len(calls) < MaxCalls
  /\ LET r == recursivePathConversion(projectPath, heap, cur, fn)
     IN /\ heap' = r.heap
        /\ ret' = r.ref
        /\ cur' = r.ref
        /\ threw' = r.threw
  /\ pc' = "recursivePathConversion"
  /\ calls' = Append(calls, fn)
  /\ UNCHANGED <<tree, projectPath, uri, rootUri, accumulator, assetList, retList>>

CallRecursiveAbsoluteToRelativePath == CallConversion(ToRelative)

CallRecursiveRelativeToAbsolutePath == CallConversion(ToAbsolute)

\* _convertPathForArray applied to the caller's array, again and again: the
\* objects of the array are the ones converted
CallConvertPathForArray(fn) ==
  /\ pc \in {"ready", "convertPathForArray"}
  /\ ~threw
  /\ Len(calls) < MaxCalls
  /\ LET r == ConvertPathForArray(projectPath, heap, assetList, fn)
     IN /\ heap' = r.heap
        /\ threw' = r.threw
        /\ retList' = IF r.threw THEN retList ELSE assetList
  /\ pc' = "convertPathForArray"
  /\ calls' = Append(calls, fn)
  /\ UNCHANGED <<tree, cur, projectPath, uri, rootUri, accumulator, assetList, ret>>

CallAbsoluteToRelativePathForArray == CallConvertPathForArray(ToRelative)

CallRelativeToAbsolutePathForArray == CallConvertPathForArray(ToAbsolute)

CallFilterIncludedFileAssets ==
  /\ pc = "ready"
  /\ pc' = "filterIncludedFileAssets"
  /\ LET r == filterIncludedFileAssets(heap, tree)
     IN heap' = r.heap /\ ret' = r.ref
  /\ UNCHANGED <<tree, cur, projectPath, uri, rootUri, accumulator, assetList, retList, threw, calls>>

CallFindChildAssetByUri ==
  /\ pc = "ready"
  /\ pc' = "findChildAssetByUri"
  /\ ret' = findChildAssetByUri(heap, tree, uri)
  /\ UNCHANGED <<Inputs, retList, threw, calls>>

CallFindDescendantAssetByUri ==
  /\ pc = "ready"
  /\ pc' = "findDescendantAssetByUri"
  /\ ret' = findDescendantAssetByUri(heap, tree, uri)
  /\ UNCHANGED <<Inputs, retList, threw, calls>>

\* entryPointList.push grows the caller's array, which is also what is returned
CallFindEntryPointAssets ==
  /\ pc = "ready"
  /\ pc' = "findEntryPointAssets"
  /\ retList' = findEntryPointAssets(heap, tree, accumulator)
  /\ accumulator' = retList'
  /\ UNCHANGED <<heap, tree, cur, projectPath, uri, rootUri, assetList, ret, threw, calls>>

CallGetAllNotes ==
  /\ pc = "ready"
  /\ pc' = "getAllNotes"
  /\ retList' = getAllNotes(heap, tree)
  /\ UNCHANGED <<Inputs, ret, threw, calls>>

(***************************************************************************)
(* findAllDescendantAssetsByUri on its own                                 *)
(***************************************************************************)

DescSegs == {<<>>, <<"p">>, <<"p", "q">>}

InitDesc ==
  /\ heap = <<>> /\ tree = 0 /\ cur = 0
  /\ projectPath = Null /\ accumulator = <<>>
  /\ uri \in PathsOf(MaxUriSegs, DescSegs) \cup {Null}
  /\ rootUri \in PathsOf(MaxRootSegs, DescSegs) \cup {Null}
  /\ assetList = <<>>
  /\ InitRest

NextDesc == CallFindAllDescendantAssetsByUri

SpecDesc == InitDesc /\ [][NextDesc]_vars

\* the ancestor paths of u, innermost first: u cut before each of its separators,
\* from the last to the first
AncestorPaths(u) ==
  LET segs == Split(u, Sep)
      n == Len(segs)
  IN [i \in 1..(n - 1) |-> Join(SubSeq(segs, 1, n - i), Sep)]

DescCalled == pc = "findAllDescendantAssetsByUri" /\ uri # Null /\ rootUri # Null

\* C4 as the spec states it: when a (non-empty) rootUri is a prefix of assetUri, the
\* list is the ancestor paths of assetUri strictly between the two, innermost first,
\* and holds neither assetUri nor rootUri
C4_StrictlyBetween ==
  (DescCalled /\ rootUri # <<>> /\ StartsWith(uri, rootUri)) =>
     /\ retList = SelectSeq(AncestorPaths(uri),
                            LAMBDA x : StartsWith(x, rootUri) /\ Len(x) > Len(rootUri))
     /\ \A i \in 1..Len(retList) : retList[i] # uri /\ retList[i] # rootUri

\* C4: when a non-empty rootUri is a prefix of assetUri, the list is the ancestor
\* paths of assetUri, innermost first, from its parent up to and including rootUri,
\* so rootUri is its last element unless assetUri = rootUri (then it is empty); when
\* no ancestor path is rootUri (the prefix ends inside a segment, or at a separator
\* rootUri ends with) it is every ancestor path but the text before rootUri's first
\* separator.  It never holds assetUri.
C4_UpToAndIncludingRoot ==
  (DescCalled /\ rootUri # <<>> /\ StartsWith(uri, rootUri)) =>
     LET anc == AncestorPaths(uri)
     IN /\ \A i \in 1..Len(retList) : retList[i] # uri
        /\ IF uri = rootUri THEN retList = <<>>
           ELSE IF \E k \in 1..Len(anc) : anc[k] = rootUri
             THEN /\ retList = SubSeq(anc, 1, CHOOSE k \in 1..Len(anc) : anc[k] = rootUri)
                  /\ retList[Len(retList)] = rootUri
           ELSE retList = SelectSeq(anc, LAMBDA x : x # Head(Split(rootUri, Sep)))

\* C4 witness: a root two levels above the asset, enumerated
C4_Witness ==
  /\ DescCalled
  /\ uri = <<"/", "p", "/", "p", "q", "/", "p">>
  /\ rootUri = <<"/", "p">>
  /\ Len(retList) = 2

(***************************************************************************)
(* Path conversion: a chain of recursiveAbsoluteToRelativePath and         *)
(* recursiveRelativeToAbsolutePath calls on a tree                         *)
(***************************************************************************)

ConvUris == {sP, sPA, sPATrail, sPDotDot}
ConvTypes == {FILE, DIRECTORY, FOLDER, URL}
ConvFields == {[BlankAsset EXCEPT !.uri = u, !.type = t] : u \in ConvUris, t \in ConvTypes}
ConvRoots == {sP, sPTrail}

InitConv ==
  /\ HeapIn(ConvMaxNodes, ConvFields, {0}, {FALSE})
  /\ tree = 1 /\ cur = 1
  /\ projectPath \in ConvRoots
  /\ uri = Null /\ rootUri = Null /\ accumulator = <<>>
  /\ assetList = <<>>
  /\ InitRest

NextConv ==
  \/ CallRecursiveAbsoluteToRelativePath
  \/ CallRecursiveRelativeToAbsolutePath

SpecConv == InitConv /\ [][NextConv]_vars

\* a node whose uri is a path: type FILE, DIRECTORY or FOLDER
IsPathNode(h, a) == h[a].type \in {FILE, DIRECTORY, FOLDER}

PathNodes(h, t) == {a \in Nodes(h, t) : IsPathNode(h, a)}

\* u is root or lies below it
Under(u, root) ==
  /\ StartsWith(u, root)
  /\ Len(u) = Len(root) \/ root[Len(root)] = Sep \/ u[Len(root) + 1] = Sep

\* every path node of the tree at t has an absolute uri under root
AbsoluteUnder(h, t, root) ==
  \A a \in PathNodes(h, t) : h[a].uri # Null /\ IsAbsolute(h[a].uri) /\ Under(h[a].uri, root)

\* u is an absolute path in normal form: no empty, "." or ".." segment, no
\* trailing separator
IsNormalized(u) ==
  \/ u = <<Sep>>
  \/ LET segs == Split(u, Sep)
     IN /\ Len(segs) >= 2
        /\ segs[1] = <<>>
        /\ \A i \in 2..Len(segs) : segs[i] \notin {<<>>, <<".">>, <<".", ".">>}

\* the tree at t has the shape and, node by node, the uris of the tree at s
SameUris(h, s, t) ==
  LET before == PreOrder(h, s)
      after == PreOrder(h, t)
  IN /\ Len(after) = Len(before)
     /\ \A i \in 1..Len(before) : h[after[i]].uri = h[before[i]].uri

RoundTripped == calls = <<ToRelative, ToAbsolute>> /\ AbsoluteUnder(heap, tree, projectPath)

\* C1 as the spec states it: to relative and back gives every node its original uri
C1_RoundTripExact == RoundTripped => (~threw /\ SameUris(heap, tree, cur))

\* C1: for a tree whose path nodes all have normalized absolute uris under the
\* root, to relative and back gives every node, URL nodes included, its original uri
C1_RoundTripNormalized ==
  (RoundTripped /\ \A a \in PathNodes(heap, tree) : IsNormalized(heap[a].uri))
     => (~threw /\ SameUris(heap, tree, cur))

\* C1 witness: a directory and a file below it went to relative and back
C1_Witness ==
  /\ RoundTripped
  /\ cur # tree
  /\ heap[tree].type = DIRECTORY /\ heap[tree].uri = sP
  /\ heap[tree].children # <<>>
  /\ heap[heap[tree].children[1]].type = FILE
  /\ heap[heap[tree].children[1]].uri = sPA
  /\ heap[heap[cur].children[1]].uri = sPA

\* C2: a conversion call changes no object that existed before it, and when it
\* converts (tree and project root present) the tree it returns is made of
\* objects that did not exist before: it shares no node with its input
C2_NonMutation ==
  [][pc' = "recursivePathConversion" =>
       /\ \A a \in 1..Len(heap) : heap'[a] = heap[a]
       /\ (cur # 0 /\ projectPath # Null /\ ~threw') =>
             /\ Nodes(heap', ret') \cap Nodes(heap, cur) = {}
             /\ Nodes(heap', ret') \cap (1..Len(heap)) = {}]_vars

\* C2 witness: a two-node tree was converted and the result differs from the input
C2_Witness ==
  /\ pc = "recursivePathConversion"
  /\ Len(calls) = 1
  /\ Len(PreOrder(heap, tree)) = 2
  /\ ret # tree
  /\ heap[ret].uri # heap[tree].uri

AllAbsolute(h, t) == \A a \in PathNodes(h, t) : h[a].uri # Null /\ IsAbsolute(h[a].uri)
AllRelative(h, t) == \A a \in PathNodes(h, t) : h[a].uri # Null /\ ~IsAbsolute(h[a].uri)
AllNull(h, t) == \A a \in PathNodes(h, t) : h[a].uri = Null

\* recursiveAbsoluteToRelativePath was applied to the result of recursiveAbsoluteToRelativePath
RelativeTwice ==
  \E i \in 1..(Len(calls) - 1) : calls[i] = ToRelative /\ calls[i + 1] = ToRelative

\* C5 as the spec states it: after any chain of conversions the uris of the path
\* nodes are all absolute or all relative, and none is null
C5_AbsoluteOrRelative ==
  AbsoluteUnder(heap, tree, projectPath) => (AllAbsolute(heap, cur) \/ AllRelative(heap, cur))

\* C5: after any chain of conversions the uris of the path nodes are all absolute,
\* all relative or all null, never a mixture; they are null exactly when
\* recursiveAbsoluteToRelativePath has been applied to an already relative tree
C5_UniformForm ==
  (AbsoluteUnder(heap, tree, projectPath) /\ ~threw) =>
     /\ AllAbsolute(heap, cur) \/ AllRelative(heap, cur) \/ AllNull(heap, cur)
     /\ RelativeTwice => AllNull(heap, cur)
     /\ ~RelativeTwice => \A a \in PathNodes(heap, cur) : heap[a].uri # Null

\* C5 witness: two path nodes, made relative twice
C5_Witness ==
  /\ AbsoluteUnder(heap, tree, projectPath)
  /\ calls = <<ToRelative, ToRelative>>
  /\ Cardinality(PathNodes(heap, cur)) = 2
  /\ AllNull(heap, cur)

\* the fields of h[a] other than the addresses of its children, with the number
\* of its children
ValueOf(h, a) == [h[a] EXCEPT !.children = Len(h[a].children)]

\* the subtree at a as values: its nodes in pre-order, each with the number of
\* its children
SubtreeValue(h, a) ==
  LET pre == PreOrder(h, a)
  IN [i \in 1..Len(pre) |-> ValueOf(h, pre[i])]

\* one conversion was applied to the input tree and returned
ConvertedOnce == pc = "recursivePathConversion" /\ Len(calls) = 1 /\ ~threw

\* C11 as the spec states it: in the returned tree every URL node and its whole
\* subtree are value-identical to the corresponding input nodes, so no uri below
\* a URL node is rewritten, whatever the type of the descendant
C11_UrlSubtreeUnchanged ==
  ConvertedOnce =>
     LET before == PreOrder(heap, tree)
         after == PreOrder(heap, ret)
     IN /\ Len(after) = Len(before)
        /\ \A i \in 1..Len(after) :
              ~IsPathNode(heap, after[i]) =>
                 SubtreeValue(heap, after[i]) = SubtreeValue(heap, before[i])

\* C11: the returned tree has the shape of the input; every URL node has the
\* fields of its input node and as many children, and every FILE, DIRECTORY or
\* FOLDER node, one below a URL node included, has the fields of its input node
\* but for its uri, which is the conversion function's result for the input node
C11_UrlNodeUnchanged ==
  ConvertedOnce =>
     LET before == PreOrder(heap, tree)
         after == PreOrder(heap, ret)
     IN /\ Len(after) = Len(before)
        /\ \A i \in 1..Len(after) :
              IF IsPathNode(heap, before[i])
              THEN ValueOf(heap, after[i]) =
                     [ValueOf(heap, before[i]) EXCEPT
                        !.uri = WorkerFn(calls[1], projectPath, heap, before[i])]
              ELSE ValueOf(heap, after[i]) = ValueOf(heap, before[i])

\* C11 witness: a URL node with a FILE child was made relative; the URL node kept
\* its uri and the child's uri was rewritten
C11_Witness ==
  /\ ConvertedOnce
  /\ calls = <<ToRelative>>
  /\ projectPath = sP
  /\ heap[tree].type = URL /\ heap[tree].uri = sPA
  /\ Len(heap[tree].children) = 1
  /\ heap[heap[tree].children[1]].type = FILE
  /\ heap[heap[tree].children[1]].uri = sPA
  /\ heap[ret].uri = sPA
  /\ heap[heap[ret].children[1]].uri = sA

(***************************************************************************)
(* Path conversion of an array: a chain of absoluteToRelativePathForArray  *)
(* and relativeToAbsolutePathForArray calls on the caller's array          *)
(***************************************************************************)

ArrayUris == {sPA, sA}
ArrayTypes == {FILE, URL}
ArrayFields == {[BlankAsset EXCEPT !.uri = u, !.type = t] : u \in ArrayUris, t \in ArrayTypes}
ArrayRoots == {sP, Null}

\* the arrays over the objects of h: absent, or up to ArrayMaxLen entries, each an
\* object or null
ArraysOver(h) ==
  {NoArray} \cup UNION {[1..n -> 0..Len(h)] : n \in 0..ArrayMaxLen}

InitArray ==
  /\ HeapIn(ConvMaxNodes, ArrayFields, {0}, {FALSE})
  /\ tree = 1 /\ cur = 1
  /\ projectPath \in ArrayRoots
  /\ uri = Null /\ rootUri = Null /\ accumulator = <<>>
  /\ assetList \in ArraysOver(heap)
  /\ InitRest

NextArray ==
  \/ CallAbsoluteToRelativePathForArray
  \/ CallRelativeToAbsolutePathForArray

SpecArray == InitArray /\ [][NextArray]_vars

(***************************************************************************)

\* the id of a handler other than the file handler: 'StatWrap.PythonHandler'
OtherHandlerId ==
  <<83, 116, 97, 116, 87, 114, 97, 112, 46,
    80, 121, 116, 104, 111, 110, 72, 97, 110, 100, 108, 101, 114>>

Entry(id, include) == [present |-> TRUE, id |-> id, include |-> include]

\* the metadata lists of the inputs; the last two hold two entries of the file
\* handler, which the data model does not expect and the lookup allows
MetadataLists ==
  {<<>>,
   <<Entry(OtherHandlerId, FALSE)>>,
   <<Entry(FileHandlerId, TRUE)>>,
   <<Entry(FileHandlerId, FALSE)>>,
   <<Entry(OtherHandlerId, TRUE), Entry(FileHandlerId, FALSE)>>,
   <<NoEntry, Entry(FileHandlerId, TRUE)>>,
   <<Entry(FileHandlerId, TRUE), Entry(FileHandlerId, FALSE)>>,
   <<Entry(FileHandlerId, FALSE), Entry(FileHandlerId, TRUE)>>}

FilterFields ==
  {BlankAsset} \cup
  {[BlankAsset EXCEPT !.hasMetadata = TRUE, !.metadata = m] : m \in MetadataLists}

InitFilter ==
  /\ HeapIn(FilterMaxNodes, FilterFields, {0, 1}, {FALSE, TRUE})
  /\ tree = 1 /\ cur = 1
  /\ projectPath = Null /\ uri = Null /\ rootUri = Null /\ accumulator = <<>>
  /\ assetList = <<>>
  /\ InitRest

NextFilter == CallFilterIncludedFileAssets

SpecFilter == InitFilter /\ [][NextFilter]_vars

\* the file handler's entries on asset a
FileEntries(h, a) ==
  IF h[a].hasMetadata
  THEN {i \in 1..Len(h[a].metadata) :
          h[a].metadata[i].present /\ h[a].metadata[i].id = FileHandlerId}
  ELSE {}

\* the file handler's entry on asset a has include false; the entry is the first
\* one, should the list hold more than the one the data model expects
HasExcludingEntry(h, a) ==
  /\ FileEntries(h, a) # {}
  /\ LET first == CHOOSE i \in FileEntries(h, a) : \A j \in FileEntries(h, a) : i <= j
     IN ~h[a].metadata[first].include

HasNoFileEntry(h, a) == FileEntries(h, a) = {}

\* the input asset x is in the result: as itself or as its clone
Appears(x) == \E r \in Nodes(heap, ret) : heap[r].orig = x

\* the proper ancestors of x in the tree at t
Ancestors(h, t, x) == {y \in Nodes(h, t) : y # x /\ x \in Nodes(h, y)}

Filtered == pc = "filterIncludedFileAssets"

C10_DefaultInclusion ==
  Filtered =>
    /\ \A x \in Nodes(heap, tree) :
          (HasNoFileEntry(heap, x) /\ \A y \in Ancestors(heap, tree, x) : Appears(y))
             => Cardinality({r \in Nodes(heap, ret) : heap[r].orig = x}) = 1
    /\ \A r \in Nodes(heap, ret) :
          heap[r].hasChildren =>
             [i \in 1..Len(heap[r].children) |-> heap[heap[r].children[i]].orig]
               = SelectSeq(heap[heap[r].orig].children, LAMBDA c : c # 0 /\ Appears(c))

\* C10 witness: an unclassified node survived between an excluded and an included
\* sibling, under an unclassified root
C10_Witness ==
  /\ Filtered
  /\ ret # 0
  /\ HasNoFileEntry(heap, tree)
  /\ Len(heap[tree].children) = 3
  /\ heap[tree].children[1] = 0
  /\ HasExcludingEntry(heap, heap[tree].children[2])
  /\ HasNoFileEntry(heap, heap[tree].children[3])
  /\ heap[tree].children[3] \in Nodes(heap, ret)
  /\ Len(heap[ret].children) = 1

\* C12: filterIncludedFileAssets changes no object that existed before the call:
\* every node of the input tree, one whose children were pruned in the result
\* included, keeps its fields and its children sequence (same elements, same
\* order, same length); what the call adds are the clones of the result
C12_FilterNonMutation ==
  [][pc' = "filterIncludedFileAssets" =>
       /\ Len(heap') >= Len(heap)
       /\ \A a \in 1..Len(heap) : heap'[a] = heap[a]
       /\ \A a \in Nodes(heap, tree) :
             heap'[a].children = heap[a].children /\ a \in Nodes(heap', tree)]_vars

\* C12 witness: the root's child lost its only child in the result, where it is a
\* clone with no children; the input child still has the excluded node as its child
C12_Witness ==
  /\ Filtered
  /\ ret # 0 /\ ret # tree
  /\ Len(heap[tree].children) = 1 /\ Len(heap[ret].children) = 1
  /\ LET c == heap[tree].children[1]
         kept == heap[ret].children[1]
     IN /\ c # 0 /\ kept # c
        /\ heap[kept].orig = heap[c].orig
        /\ Len(heap[c].children) = 1
        /\ heap[c].children[1] # 0
        /\ HasExcludingEntry(heap, heap[c].children[1])
        /\ heap[kept].children = <<>>

(***************************************************************************)
(* findDescendantAssetByUri                                                *)
(***************************************************************************)

SearchUris == {<<>>, sA, sB}
SearchFields == {[BlankAsset EXCEPT !.uri = u] : u \in SearchUris}

InitSearch ==
  /\ HeapIn(QueryMaxNodes, SearchFields, {0, 1}, {FALSE})
  /\ tree = 1 /\ cur = 1
  /\ uri \in SearchUris
  /\ projectPath = Null /\ rootUri = Null /\ accumulator = <<>>
  /\ assetList = <<>>
  /\ InitRest

NextSearch == CallFindDescendantAssetByUri

SpecSearch == InitSearch /\ [][NextSearch]_vars

\* the first node of the tree at t, in pre-order, whose uri is u; 0 when there is none
FirstInPreOrder(h, t, u) ==
  LET pre == PreOrder(h, t)
      hit(i) == h[pre[i]].uri = u
  IN IF \E i \in 1..Len(pre) : hit(i)
     THEN pre[CHOOSE i \in 1..Len(pre) : hit(i) /\ \A j \in 1..(i - 1) : ~hit(j)]
     ELSE 0

Searched == pc = "findDescendantAssetByUri"

\* C7 as the spec states it: for any uri the result is the first node in pre-order
\* with that uri, null exactly when there is none; the root is found by its own uri
C7_FirstInPreOrder ==
  Searched =>
     /\ ret = FirstInPreOrder(heap, tree, uri)
     /\ uri = heap[tree].uri => ret = tree

\* C7: for any non-empty uri the result is the first node in pre-order with that
\* uri, null exactly when there is none, and the root is found by its own uri; for
\* the empty uri the result is null, whatever the tree holds
C7_FirstInPreOrderNonEmpty ==
  Searched =>
     IF uri = <<>> THEN ret = 0
     ELSE /\ ret = FirstInPreOrder(heap, tree, uri)
          /\ ret = 0 <=> \A a \in Nodes(heap, tree) : heap[a].uri # uri
          /\ uri = heap[tree].uri => ret = tree

\* C7 witness: the uri is on a grandchild and on a later child of the root, and
\* the grandchild is found
C7_Witness ==
  /\ Searched
  /\ uri # <<>>
  /\ ret # 0
  /\ ret \notin Range(heap[tree].children) \cup {tree}
  /\ \E c \in Range(heap[tree].children) : c # 0 /\ heap[c].uri = uri

(***************************************************************************)
(* getAllNotes                                                             *)
(***************************************************************************)

NoteLists == {<<"note1">>, <<"note1", "note2">>}
NotesFields ==
  {[BlankAsset EXCEPT !.uri = u] : u \in {sA, sB}} \cup
  {[BlankAsset EXCEPT !.uri = u, !.hasNotes = TRUE, !.notes = n] : u \in {sA, sB}, n \in NoteLists}

InitNotes ==
  /\ HeapIn(QueryMaxNodes, NotesFields, {0}, {FALSE})
  /\ tree = 1 /\ cur = 1
  /\ projectPath = Null /\ uri = Null /\ rootUri = Null /\ accumulator = <<>>
  /\ assetList = <<>>
  /\ InitRest

NextNotes == CallGetAllNotes

SpecNotes == InitNotes /\ [][NextNotes]_vars

\* the notes of the assets in the list, in the list's order, each with its owner's uri
RECURSIVE TaggedNotes(_, _)
TaggedNotes(h, as) ==
  IF as = <<>> THEN <<>>
  ELSE LET a == Head(as)
           own == IF h[a].hasNotes
                  THEN [i \in 1..Len(h[a].notes) |-> [note |-> h[a].notes[i], uri |-> h[a].uri]]
                  ELSE <<>>
       IN own \o TaggedNotes(h, Tail(as))

\* C8: the result holds one record per note of the tree, in pre-order (a node's
\* notes in their stored order before those of its descendants, children left to
\* right), each with the uri of the node that owns the note
C8_NotesInPreOrder ==
  pc = "getAllNotes" => retList = TaggedNotes(heap, PreOrder(heap, tree))

\* C8 witness: a root with two notes, a grandchild and a later child with notes
\* under another uri
C8_Witness ==
  /\ pc = "getAllNotes"
  /\ Len(heap[tree].notes) = 2
  /\ Len(heap[tree].children) = 2
  /\ heap[heap[tree].children[1]].children # <<>>
  /\ Len(retList) >= 4
  /\ retList[3].uri # retList[1].uri
  /\ retList[4].uri # retList[3].uri

(***************************************************************************)
(* findEntryPointAssets                                                    *)
(***************************************************************************)

EntryFields ==
  {BlankAsset} \cup
  {[BlankAsset EXCEPT !.hasAttributes = TRUE, !.entrypoint = e] : e \in BOOLEAN}

InitEntry ==
  /\ HeapIn(QueryMaxNodes, EntryFields, {0, 1}, {FALSE})
  /\ tree = 1 /\ cur = 1
  /\ accumulator \in {<<>>, <<1>>}
  /\ projectPath = Null /\ uri = Null /\ rootUri = Null
  /\ assetList = <<>>
  /\ InitRest

NextEntry == CallFindEntryPointAssets

SpecEntry == InitEntry /\ [][NextEntry]_vars

IsEntryPoint(h, a) == h[a].hasAttributes /\ h[a].entrypoint

\* C9: the result is the caller's accumulator, its elements in place, followed by
\* the nodes whose attributes.entrypoint is true, each once, in pre-order; the
\* caller's accumulator is the list returned
C9_EntryPointsInPreOrder ==
  [][pc' = "findEntryPointAssets" =>
       LET found == SubSeq(retList', Len(accumulator) + 1, Len(retList'))
       IN /\ Len(retList') >= Len(accumulator)
          /\ SubSeq(retList', 1, Len(accumulator)) = accumulator
          /\ found = SelectSeq(PreOrder(heap, tree), LAMBDA a : IsEntryPoint(heap, a))
          /\ \A a \in Nodes(heap, tree) :
                Cardinality({i \in 1..Len(found) : found[i] = a})
                  = IF IsEntryPoint(heap, a) THEN 1 ELSE 0
          /\ accumulator' = retList']_vars

\* C9 witness: the root, a grandchild and a later child are entry points, added
\* to an accumulator that held one element
C9_Witness ==
  /\ pc = "findEntryPointAssets"
  /\ accumulator = retList
  /\ Len(retList) = 4
  /\ retList[2] = tree
  /\ retList[3] \in Nodes(heap, tree) \ ({tree} \cup Range(heap[tree].children))
  /\ retList[4] \in Range(heap[tree].children)
  /\ \A a \in Nodes(heap, tree) : IsEntryPoint(heap, a) <=> a \in {retList[2], retList[3], retList[4]}

(***************************************************************************)
(* Absent inputs: a null tree, project root, uri or child                  *)
(***************************************************************************)

NullFields == {[BlankAsset EXCEPT !.uri = u, !.type = t] : u \in {Null, sPA}, t \in {FILE, URL}}

InitNull ==
  /\ HeapIn(NullMaxNodes, NullFields, 0..NullMaxNodes, {FALSE, TRUE})
  /\ tree \in {0, 1} /\ cur = tree
  /\ projectPath \in {Null, sP}
  /\ uri \in {Null, sPA}
  /\ rootUri = Null /\ accumulator = <<>>
  /\ assetList = <<>>
  /\ InitRest

NextNull ==
  \/ CallFilterIncludedFileAssets
  \/ CallFindChildAssetByUri
  \/ CallFindDescendantAssetByUri
  \/ CallFindEntryPointAssets
  \/ CallGetAllNotes
  \/ CallRecursiveAbsoluteToRelativePath
  \/ CallRecursiveRelativeToAbsolutePath

SpecNull == InitNull /\ [][NextNull]_vars

\* C6: whichever of the tree, the project root, a uri or a child is absent, every
\* one of the seven operations completes and none raises an error
C6_NoThrow == ~threw

====
